---- MODULE Spec2Model ----
(***************************************************************************)
(* Model of poets.grid.grids and poets.image.resampling.                   *)
(*                                                                         *)
(* All coordinates and resolutions are integers in thousandths of a        *)
(* degree (0.01 deg = 10, 0.25 deg = 250, 1 deg = 1000), so that the       *)
(* half-cell offsets res/2 of every resolution used here are integers and  *)
(* the arithmetic of the source (ceil, floor, sums, products) is exact.    *)
(* The rounding of binary floating point is not part of the model.         *)
(*                                                                         *)
(* A behaviour is one call of one entry point of the library: the initial  *)
(* state holds the process-wide setting and the call's arguments, each     *)
(* action is one function of the source run from its first to its last     *)
(* line.                                                                   *)
(***************************************************************************)
EXTENDS Integers, Sequences, FiniteSets, TLC

VARIABLES
    call,           \* the entry point this behaviour exercises
    pc,             \* position of the caller: "start", then "built"/"done"
    sp_res,         \* Settings.sp_res, the process-wide resolution
    resolution,     \* the resolution argument of CountryGrid.__init__
    shp,            \* Shape(country): [bbox, polygon]
    lons, lats,     \* candidate axes (arguments of _remove_blank_frame)
    del_lons, del_lats,     \* index lists collected by the four scans
    lon_new, lat_new,       \* axes returned by _remove_blank_frame
    calls,          \* number of applications of _remove_blank_frame so far
    min_threshold, max_threshold,   \* arguments of _minmaxcoord
    minval, maxval,                 \* values returned by _minmaxcoord
    lonmin, lonmax, latmin, latmax, \* locals of CountryGrid.__init__
    self,           \* the CountryGrid: [arrlon, arrlat, shape, n_gpi]
    raised,         \* the exception the call ended with, or "none"
    box, points,    \* locals / result of get_country_gridpoints
    grid,           \* the grid returned by _create_grid
    prefix, data, mask, out     \* resample_to_shape: argument, resampled
                                \* input fields, combined mask, result

vars == <<call, pc, sp_res, resolution, shp, lons, lats, del_lons, del_lats,
          lon_new, lat_new, calls, min_threshold, max_threshold, minval,
          maxval, lonmin, lonmax, latmin, latmax, self, raised, box, points,
          grid, prefix, data, mask, out>>

-----------------------------------------------------------------------------
(* Bounds of the model.                                                    *)

\* longest longitude axis handed to _remove_blank_frame directly
MaxLonLen == 4
\* longest latitude axis handed to _remove_blank_frame directly
MaxLatLen == 4
\* most points of a candidate lattice handed to _remove_blank_frame directly
MaxCells == 9
\* _remove_blank_frame is applied at most this many times in a row
MaxCalls == 2
\* thresholds of _minmaxcoord range over -MaxThresh*50 .. MaxThresh*50
MaxThresh == 25
\* bounding boxes of country shapes have their longitudes in
\* -500 .. MaxBoxLon*500 and their latitudes in -500 .. MaxBoxLat*500
MaxBoxLon == 5
MaxBoxLat == 4
\* resample_to_shape is exercised on shapes whose bounding box lies within
\* 0 .. MaxDestBox*500 in both dimensions
MaxDestBox == 4

-----------------------------------------------------------------------------
(* Arithmetic and numpy helpers.                                           *)

\* math.floor(a / b) and math.ceil(a / b) for b > 0
Floor(a, b) == a \div b
Ceil(a, b) == -((-a) \div b)

Range(s) == {s[i] : i \in 1..Len(s)}

\* len(np.arange(start, stop, step)) = max(0, ceil((stop - start) / step))
ArangeLen(start, stop, step) ==
    IF Ceil(stop - start, step) > 0 THEN Ceil(stop - start, step) ELSE 0

\* np.arange(start, stop, step)
Arange(start, stop, step) ==
    [i \in 1..ArangeLen(start, stop, step) |-> start + (i - 1) * step]

\* list.remove(v): the list without the first occurrence of v
RECURSIVE ListRemove(_, _)
ListRemove(l, v) ==
    IF l = <<>> THEN <<>>
    ELSE IF Head(l) = v THEN Tail(l)
    ELSE <<Head(l)>> \o ListRemove(Tail(l), v)

-----------------------------------------------------------------------------
(* Geometry.  A polygon is represented by the set of points <<lon, lat>>   *)
(* that lie strictly inside it; this is all the source asks of a polygon.  *)
(* Any finite set of lattice points is the set of lattice points strictly  *)
(* inside some simple polygon, so every subset stands for a polygon.       *)

\* shapely: Point(x, y).within(poly)
Within(p, poly) == p \in poly

\* shapely: poly.contains(Point(x, y)), the converse of within
Contains(poly, p) == Within(p, poly)

-----------------------------------------------------------------------------
(* _remove_blank_frame                                                     *)

\* a faulty checksum test for the column at longitude x: the
\* column counts as blank as soon as one of its points is outside
LonBlankAnyOutside(poly, x, ys) ==
    \/ Len(ys) = 0
    \/ \E j \in 1..Len(ys) : ~Within(<<x, ys[j]>>, poly)

\* left/right scans: checksum == lats.size for the column at longitude x
LonBlank(poly, x, ys) ==
    Cardinality({j \in 1..Len(ys) : ~Within(<<x, ys[j]>>, poly)}) = Len(ys)

\* bottom/top scans: checksum == lons.size for the row at latitude y
LatBlank(poly, y, xs) ==
    Cardinality({j \in 1..Len(xs) : ~Within(<<xs[j], y>>, poly)}) = Len(xs)

\* Number of iterations of a scan loop that append an index before the loop
\* breaks or runs out: blank[k] tells whether the k-th entry the loop visits
\* (k = 1, 2, ...) is blank.
ScanCount(blank) ==
    CHOOSE k \in 0..Len(blank) :
        /\ \A i \in 1..k : blank[i]
        /\ (k = Len(blank) \/ ~blank[k + 1])

\* indices appended by the left (bottom) scan: 0, 1, ..., k-1
LowIndices(k) == [i \in 1..k |-> i - 1]

\* indices appended by the right (top) scan: n-1, n-2, ..., n-k
HighIndices(n, k) == [i \in 1..k |-> n - i]

\* a scan that runs over the whole axis instead of stopping at its midpoint
ScanLimitWholeAxis(n) == n

\* lons[:(lons.size / 2)], lats[:(lats.size / 2)]: the number of entries a
\* scan visits on an axis of n coordinates (integer division)
ScanLimit(n) == n \div 2

\* lines 266-288: del_lons
DelLons(poly, xs, ys) ==
    LET n == Len(xs)
        half == ScanLimit(n)
        left == ScanCount([k \in 1..half |-> LonBlank(poly, xs[k], ys)])
        right == ScanCount([k \in 1..half |-> LonBlank(poly, xs[n + 1 - k], ys)])
    IN  LowIndices(left) \o HighIndices(n, right)

\* lines 290-312: del_lats
DelLats(poly, xs, ys) ==
    LET n == Len(ys)
        half == ScanLimit(n)
        bottom == ScanCount([k \in 1..half |-> LatBlank(poly, ys[k], xs)])
        top == ScanCount([k \in 1..half |-> LatBlank(poly, ys[n + 1 - k], xs)])
    IN  LowIndices(bottom) \o HighIndices(n, top)

\* lines 314-323: for i in del: if axis[i] in new: new.remove(axis[i])
RECURSIVE RemoveAll(_, _, _)
RemoveAll(new, axis, del) ==
    IF del = <<>> THEN new
    ELSE LET v == axis[Head(del) + 1]
         IN  RemoveAll(IF v \in Range(new) THEN ListRemove(new, v) ELSE new,
                       axis, Tail(del))

\* _remove_blank_frame(country, lons, lats) with poly = Shape(country).polygon;
\* returns <<lon_new, lat_new>>
_remove_blank_frame(poly, xs, ys) ==
    <<RemoveAll(xs, xs, DelLons(poly, xs, ys)),
      RemoveAll(ys, ys, DelLats(poly, xs, ys))>>

-----------------------------------------------------------------------------
(* _minmaxcoord                                                            *)

\* the resolutions with a predefined global grid: 0.01, 0.1, 0.25, 1 degree
PredefinedRes == {10, 100, 250, 1000}

\* further resolutions used for country grids: 1 and 2 degrees
CountryRes == {1000, 2000}

\* _minmaxcoord with the two adjustments of the lower end exchanged
MinMaxCoordSwapped(lo, hi) ==
    LET res == sp_res
        minval0 == Ceil(lo, res) * res
        maxval0 == Floor(hi, res) * res
    IN  <<IF minval0 - (res \div 2) < lo
              THEN minval0 - (res \div 2)
              ELSE minval0 + (res \div 2),
          IF maxval0 + (res \div 2) > hi
              THEN maxval0 - (res \div 2)
              ELSE maxval0 + (res \div 2)>>

\* _minmaxcoord(min_threshold, max_threshold): res is read from
\* Settings.sp_res; returns <<minval, maxval>>
_minmaxcoord(lo, hi) ==
    LET res == sp_res
        minval0 == Ceil(lo, res) * res
        maxval0 == Floor(hi, res) * res
    IN  <<IF minval0 - (res \div 2) < lo
              THEN minval0 + (res \div 2)
              ELSE minval0 - (res \div 2),
          IF maxval0 + (res \div 2) > hi
              THEN maxval0 - (res \div 2)
              ELSE maxval0 + (res \div 2)>>

-----------------------------------------------------------------------------
(* The predefined global grids and _create_grid                            *)

\* a grid class as its constructor builds it: the two np.arange axes are
\* kept by their lengths, the meshgrid by its point count
RegularGrid(cls, lonstart, latstart, step) ==
    LET nlon == ArangeLen(lonstart, 180000, step)
        nlat == ArangeLen(latstart, 90000, step)
    IN  [cls |-> cls, nlon |-> nlon, nlat |-> nlat, n_gpi |-> nlat * nlon]

HundredthDegGrid == RegularGrid("HundredthDegGrid", -179995, -89995, 10)
TenthDegGrid == RegularGrid("TenthDegGrid", -179950, -89950, 100)
QuarterDegGrid == RegularGrid("QuarterDegGrid", -179875, -89875, 250)
OneDegGrid == RegularGrid("OneDegGrid", -179500, -89500, 1000)

\* the if/elif chain of _create_grid; "unbound" when no branch is taken
\* and `return grid` finds the local unbound
_create_grid ==
    IF sp_res = 10 THEN HundredthDegGrid
    ELSE IF sp_res = 100 THEN TenthDegGrid
    ELSE IF sp_res = 250 THEN TenthDegGrid
    ELSE IF sp_res = 1000 THEN OneDegGrid
    ELSE [cls |-> "unbound", nlon |-> 0, nlat |-> 0, n_gpi |-> 0]

-----------------------------------------------------------------------------
(* CountryGrid                                                             *)

\* np.arange(lonmin, lonmax, sp_res): the stop without the added cell
CandidateAxisShort(minc, maxc) == Arange(minc, maxc, sp_res)

\* np.arange(lonmin, lonmax + 2 * sp_res, sp_res): one cell too many
CandidateAxisLong(minc, maxc) == Arange(minc, maxc + 2 * sp_res, sp_res)

\* lines 197-198: np.arange(lonmin, lonmax + Settings.sp_res, Settings.sp_res)
CandidateAxis(minc, maxc) == Arange(minc, maxc + sp_res, sp_res)

\* lon, lat = np.meshgrid(lon_new, lat_new), flattened row by row, with
\* shape = lon.shape = (len(lat_new), len(lon_new))
MeshGrid(xs, ys) ==
    LET nlon == Len(xs)
        nlat == Len(ys)
    IN  [arrlon |-> [k \in 1..(nlat * nlon) |-> xs[((k - 1) % nlon) + 1]],
         arrlat |-> [k \in 1..(nlat * nlon) |-> ys[((k - 1) \div nlon) + 1]],
         shape |-> <<nlat, nlon>>,
         n_gpi |-> nlat * nlon]

\* CountryGrid.__init__, lines 192-205: every local of the constructor and
\* the arrays it hands to the base class
CountryGrid(s) ==
    LET lo == _minmaxcoord(s.bbox[1], s.bbox[3])
        la == _minmaxcoord(s.bbox[2], s.bbox[4])
        xs == CandidateAxis(lo[1], lo[2])
        ys == CandidateAxis(la[1], la[2])
        r == _remove_blank_frame(s.polygon, xs, ys)
    IN  [lonmin |-> lo[1], lonmax |-> lo[2],
         latmin |-> la[1], latmax |-> la[2],
         lons |-> xs, lats |-> ys,
         del_lons |-> DelLons(s.polygon, xs, ys),
         del_lats |-> DelLats(s.polygon, xs, ys),
         lon_new |-> r[1], lat_new |-> r[2],
         grid |-> MeshGrid(r[1], r[2])]

\* BasicGrid.get_bbox_grid_points(latmin, latmax, lonmin, lonmax): the grid
\* point indices (0-based) whose coordinates lie in the closed box
get_bbox_grid_points(g, la0, la1, lo0, lo1) ==
    {k - 1 : k \in {i \in 1..g.n_gpi :
        /\ g.arrlat[i] >= la0 /\ g.arrlat[i] <= la1
        /\ g.arrlon[i] >= lo0 /\ g.arrlon[i] <= lo1}}

\* BasicGrid.gpi2lonlat(gpi)
gpi2lonlat(g, gpi) == <<g.arrlon[gpi + 1], g.arrlat[gpi + 1]>>

\* get_country_gridpoints without the contains test
CountryGridpointsUnfiltered(g, s, b) == [gpi \in b |-> gpi2lonlat(g, gpi)]

\* lines 222-235: the DataFrame, as a function from the gpi (the index) to
\* <<lon, lat>>, of the box points the polygon contains
get_country_gridpoints(g, s, b) ==
    [gpi \in {k \in b : Contains(s.polygon, gpi2lonlat(g, k))}
        |-> gpi2lonlat(g, gpi)]

\* the cell centers of the lattice of resolution res strictly between lo and hi
CentersInside(lo, hi, res) ==
    {c \in {k * res + (res \div 2) : k \in (Floor(lo, res) - 1)..Ceil(hi, res)} :
        lo < c /\ c < hi}

\* Country shapes: a bounding box with corners on multiples of 0.5 degree,
\* and a polygon inside it, given by the cell centers of the lattice of
\* resolution res that lie strictly inside the polygon.
Shapes(res) ==
    UNION {
        {[bbox |-> <<x0 * 500, y0 * 500, x1 * 500, y1 * 500>>, polygon |-> poly] :
            poly \in SUBSET (CentersInside(x0 * 500, x1 * 500, res)
                             \X CentersInside(y0 * 500, y1 * 500, res))} :
        <<x0, x1, y0, y1>> \in
            {b \in (-1..MaxBoxLon) \X (-1..MaxBoxLon)
                   \X (-1..MaxBoxLat) \X (-1..MaxBoxLat) :
                b[1] < b[2] /\ b[3] < b[4]}}

-----------------------------------------------------------------------------
(* resample_to_shape                                                       *)

\* np.unique(a): the distinct values of a in ascending order
RECURSIVE SortedSeq(_)
SortedSeq(S) ==
    IF S = {} THEN <<>>
    ELSE LET m == CHOOSE x \in S : \A y \in S : x <= y
         IN  <<m>> \o SortedSeq(S \ {m})

unique(a) == SortedSeq(Range(a))

\* a[::-1]
Reversed(a) == [i \in 1..Len(a) |-> a[Len(a) + 1 - i]]

\* the cells (i, j) of an array of the given shape, 0-based
Cells(shape) == (0..(shape[1] - 1)) \X (0..(shape[2] - 1))

\* dest_lon, dest_lat = np.meshgrid(np.unique(grid.arrlon),
\*                                  np.unique(grid.arrlat)[::-1]):
\* the <<lon, lat>> of destination cell (i, j)
DestPoint(g, cell) ==
    <<unique(g.arrlon)[cell[2] + 1], Reversed(unique(g.arrlat))[cell[1] + 1]>>

\* the value the external resampling puts at a cell of a variable: stands
\* for the true resampled value, different for every cell and variable and
\* different from the fill value
TrueValue(key, cell) ==
    (IF key = "ndvi" THEN 100 ELSE 200) + 10 * cell[1] + cell[2]

\* the orders in which data.keys() may list the variables of the source
KeyOrders == {<<"ndvi">>, <<"ndvi", "lst">>, <<"lst", "ndvi">>}

\* what resample.resample_to_grid may return for a destination of the given
\* shape: per variable a masked array with the true values and any validity
\* mask; keys is the order of data.keys()
ResampledData(shape) ==
    UNION {
        {[keys |-> ks,
          field |-> [k \in Range(ks) |->
                        [c \in Cells(shape) |->
                            [val |-> TrueValue(k, c), masked |-> c \in inv[k]]]]] :
            inv \in [Range(ks) -> SUBSET Cells(shape)]} :
        ks \in KeyOrders}

\* lines 102-112: the combined mask
CombinedMask(g, s, d) ==
    [c \in Cells(g.shape) |->
        \/ ~Within(DestPoint(g, c), s.polygon)
        \/ d.field[d.keys[1]][c].masked]

\* lines 114-120: every variable under its prefixed name; the first
\* masked_array keeps the variable's own mask beside the combined one, the
\* values under either become -99, the final mask is the combined one
MaskedOutput(g, d, m, pre) ==
    [var \in {pre \o k : k \in Range(d.keys)} |->
        LET key == CHOOSE k \in Range(d.keys) : pre \o k = var
        IN  [c \in Cells(g.shape) |->
                [val |-> IF m[c] \/ d.field[key][c].masked
                             THEN -99
                             ELSE d.field[key][c].val,
                 masked |-> m[c]]]]

-----------------------------------------------------------------------------
(* Initial states and actions.                                             *)

NoShape == [bbox |-> <<0, 0, 0, 0>>, polygon |-> {}]
NoGrid == [arrlon |-> <<>>, arrlat |-> <<>>, shape |-> <<0, 0>>, n_gpi |-> 0]
NoRegular == [cls |-> "none", nlon |-> 0, nlat |-> 0, n_gpi |-> 0]

\* every call starts here
Idle ==
    /\ pc = "start"
    /\ raised = "none"
    /\ calls = 0
    /\ del_lons = <<>> /\ del_lats = <<>>
    /\ lon_new = <<>> /\ lat_new = <<>>
    /\ minval = 0 /\ maxval = 0
    /\ lonmin = 0 /\ lonmax = 0 /\ latmin = 0 /\ latmax = 0
    /\ self = NoGrid /\ box = {} /\ points = <<>>
    /\ grid = NoRegular
    /\ mask = <<>> /\ out = <<>>

\* values of the arguments a call does not take
NoRange == min_threshold = 0 /\ max_threshold = 0
NoAxes == lons = <<>> /\ lats = <<>>
NoCountry == resolution = sp_res
NoResample == prefix = "None" /\ data = <<>>

\* A call of _remove_blank_frame: axes as np.arange builds them (ascending,
\* distinct), the polygon any set of points of the candidate lattice.
InitTrim ==
    /\ call = "_remove_blank_frame"
    /\ Idle
    /\ sp_res = 1000
    /\ \E n \in 0..MaxLonLen, m \in 0..MaxLatLen :
        /\ n * m <= MaxCells
        /\ lons = Arange(500, 500 + n * 1000, 1000)
        /\ lats = Arange(-1500, -1500 + m * 1000, 1000)
    /\ \E poly \in SUBSET (Range(lons) \X Range(lats)) :
        shp = [bbox |-> <<0, -2000, Len(lons) * 1000, -2000 + Len(lats) * 1000>>,
               polygon |-> poly]
    /\ NoRange /\ NoCountry /\ NoResample

\* _remove_blank_frame applied to (lons, lats), or, when it has been applied
\* before, to the axes it returned.
RemoveBlankFrame ==
    /\ call = "_remove_blank_frame"
    /\ calls < MaxCalls
    /\ LET xs == IF calls = 0 THEN lons ELSE lon_new
           ys == IF calls = 0 THEN lats ELSE lat_new
           r == _remove_blank_frame(shp.polygon, xs, ys)
       IN  /\ lons' = xs
           /\ lats' = ys
           /\ del_lons' = DelLons(shp.polygon, xs, ys)
           /\ del_lats' = DelLats(shp.polygon, xs, ys)
           /\ lon_new' = r[1]
           /\ lat_new' = r[2]
    /\ calls' = calls + 1
    /\ pc' = "done"
    /\ UNCHANGED <<call, sp_res, resolution, shp, min_threshold, max_threshold,
                   minval, maxval, lonmin, lonmax, latmin, latmax, self,
                   raised, box, points, grid, prefix, data, mask, out>>

\* A call of _minmaxcoord: any interval with thresholds that are multiples
\* of 0.05 degree (cell edges, cell centers and points in between, on both
\* sides of zero), at any of the resolutions.
InitRange ==
    /\ call = "_minmaxcoord"
    /\ Idle
    /\ sp_res \in PredefinedRes \cup CountryRes
    /\ \E a, b \in -MaxThresh..MaxThresh :
        /\ a <= b
        /\ min_threshold = a * 50
        /\ max_threshold = b * 50
    /\ shp = NoShape
    /\ NoAxes /\ NoCountry /\ NoResample

MinMaxCoord ==
    /\ call = "_minmaxcoord"
    /\ pc = "start"
    /\ LET r == _minmaxcoord(min_threshold, max_threshold)
       IN  minval' = r[1] /\ maxval' = r[2]
    /\ pc' = "done"
    /\ UNCHANGED <<call, sp_res, resolution, shp, lons, lats, del_lons,
                   del_lats, lon_new, lat_new, calls, min_threshold,
                   max_threshold, lonmin, lonmax, latmin, latmax, self,
                   raised, box, points, grid, prefix, data, mask, out>>

\* A call of _create_grid under any process-wide resolution.
InitCreate ==
    /\ call = "_create_grid"
    /\ Idle
    /\ sp_res \in PredefinedRes \cup CountryRes
    /\ shp = NoShape
    /\ NoRange /\ NoAxes /\ NoCountry /\ NoResample

CreateGrid ==
    /\ call = "_create_grid"
    /\ pc = "start"
    /\ IF _create_grid.cls = "unbound"
           THEN raised' = "UnboundLocalError" /\ grid' = grid
           ELSE raised' = raised /\ grid' = _create_grid
    /\ pc' = "done"
    /\ UNCHANGED <<call, sp_res, resolution, shp, lons, lats, del_lons,
                   del_lats, lon_new, lat_new, calls, min_threshold,
                   max_threshold, minval, maxval, lonmin, lonmax, latmin,
                   latmax, self, box, points, prefix, data, mask, out>>

\* CountryGrid(country, resolution) for any country shape, any process-wide
\* resolution and any resolution argument.
InitCountry ==
    /\ call = "CountryGrid"
    /\ Idle
    /\ sp_res \in CountryRes
    /\ resolution \in CountryRes
    /\ shp \in Shapes(sp_res)
    /\ NoRange /\ NoAxes /\ NoResample

\* CountryGrid.__init__.  The base class constructor is not part of the
\* repository: handed arrays without points it either returns or raises an
\* error of its own.
CountryGridInit ==
    /\ call = "CountryGrid"
    /\ pc = "start"
    /\ LET c == CountryGrid(shp)
       IN  /\ lonmin' = c.lonmin /\ lonmax' = c.lonmax
           /\ latmin' = c.latmin /\ latmax' = c.latmax
           /\ lons' = c.lons /\ lats' = c.lats
           /\ del_lons' = c.del_lons /\ del_lats' = c.del_lats
           /\ lon_new' = c.lon_new /\ lat_new' = c.lat_new
           /\ self' = c.grid
           /\ \/ raised' = "none"
              \/ /\ c.grid.n_gpi = 0
                 /\ raised' = "BaseClassError"
    /\ calls' = calls + 1
    /\ pc' = "built"
    /\ UNCHANGED <<call, sp_res, resolution, shp, min_threshold, max_threshold,
                   minval, maxval, box, points, grid, prefix, data, mask, out>>

\* CountryGrid.get_country_gridpoints on a grid that was built
GetCountryGridpoints ==
    /\ call = "CountryGrid"
    /\ pc = "built"
    /\ raised = "none"
    /\ LET b == get_bbox_grid_points(self, shp.bbox[2], shp.bbox[4],
                                     shp.bbox[1], shp.bbox[3])
       IN  /\ box' = b
           /\ points' = get_country_gridpoints(self, shp, b)
    /\ pc' = "done"
    /\ UNCHANGED <<call, sp_res, resolution, shp, lons, lats, del_lons,
                   del_lats, lon_new, lat_new, calls, min_threshold,
                   max_threshold, minval, maxval, lonmin, lonmax, latmin,
                   latmax, self, raised, grid, prefix, data, mask, out>>

\* resample_to_shape(source_file, country, prefix) at 1 degree, for country
\* shapes of up to 2 x 2 cells, with and without a prefix.
InitResample ==
    /\ call = "resample_to_shape"
    /\ Idle
    /\ sp_res = 1000
    /\ shp \in {s \in Shapes(sp_res) :
                    \A i \in 1..4 : s.bbox[i] >= 0 /\ s.bbox[i] <= MaxDestBox * 500}
    /\ prefix \in {"None", "MODIS"}
    /\ data = <<>>
    /\ NoRange /\ NoAxes /\ NoCountry

\* resample_to_shape.  The grid is built by CountryGrid(country), the
\* resampled fields come from the external resampling.  On a grid without
\* points the loops over the cells do nothing; what the numpy calls make of
\* the empty arrays is left open (they return or raise).  With prefix None,
\* `prefix + key` raises TypeError for the first variable.
ResampleToShape ==
    /\ call = "resample_to_shape"
    /\ pc = "start"
    /\ LET c == CountryGrid(shp)
           g == c.grid
       IN  /\ self' = g
           /\ lon_new' = c.lon_new /\ lat_new' = c.lat_new
           /\ \E d \in ResampledData(g.shape) :
                /\ data' = d
                /\ mask' = CombinedMask(g, shp, d)
                /\ \/ /\ g.n_gpi = 0
                      /\ raised' = "BaseClassError"
                      /\ out' = out
                   \/ /\ prefix = "None"
                      /\ raised' = "TypeError"
                      /\ out' = out
                   \/ /\ prefix # "None"
                      /\ raised' = "none"
                      /\ out' = MaskedOutput(g, d, CombinedMask(g, shp, d),
                                             prefix \o "_")
    /\ pc' = "done"
    /\ UNCHANGED <<call, sp_res, resolution, shp, lons, lats, del_lons,
                   del_lats, calls, min_threshold, max_threshold, minval,
                   maxval, lonmin, lonmax, latmin, latmax, box, points, grid,
                   prefix>>

Init ==
    \/ InitTrim
    \/ InitRange
    \/ InitCreate
    \/ InitCountry
    \/ InitResample

Next ==
    \/ RemoveBlankFrame
    \/ MinMaxCoord
    \/ CreateGrid
    \/ CountryGridInit
    \/ GetCountryGridpoints
    \/ ResampleToShape

Spec == Init /\ [][Next]_vars

-----------------------------------------------------------------------------
(* Claims.                                                                 *)

\* C1 (Boundary Trimmer safety): after _remove_blank_frame has run on axes
\* with distinct values (called directly or by CountryGrid.__init__), a longitude that is missing from the returned
\* longitude axis has no latitude of the full input latitude axis with which
\* it lies strictly inside the polygon, and likewise for a missing latitude
\* and the full input longitude axis.
C1_TrimSafety ==
    (call \in {"_remove_blank_frame", "CountryGrid"} /\ calls >= 1) =>
        /\ \A i \in 1..Len(lons) :
            lons[i] \notin Range(lon_new) =>
                \A j \in 1..Len(lats) : ~Within(<<lons[i], lats[j]>>, shp.polygon)
        /\ \A j \in 1..Len(lats) :
            lats[j] \notin Range(lat_new) =>
                \A i \in 1..Len(lons) : ~Within(<<lons[i], lats[j]>>, shp.polygon)

\* C1 witness: a trim that removed a longitude and a latitude while the
\* polygon has points of the lattice inside it.
C1_Witness ==
    /\ call = "_remove_blank_frame"
    /\ calls = 1
    /\ Len(lon_new) < Len(lons)
    /\ Len(lat_new) < Len(lats)
    /\ shp.polygon # {}

\* C2 (Boundary Trimmer idempotence): applying _remove_blank_frame to the
\* axes it returned, with the same polygon, returns those axes unchanged.
C2_TrimIdempotent ==
    (call = "_remove_blank_frame" /\ calls >= 2) =>
        (lon_new = lons /\ lat_new = lats)

\* C3 (Coordinate Range Reducer bounds): when the interval is at least one
\* cell wide, _minmaxcoord returns min_center <= max_center, both of them
\* cell centers k*r + r/2, with min_center >= lo - r/2 and
\* max_center <= hi + r/2.
C3_RangeBounds ==
    (call = "_minmaxcoord" /\ pc = "done"
        /\ max_threshold - min_threshold >= sp_res) =>
        /\ minval <= maxval
        /\ (minval - (sp_res \div 2)) % sp_res = 0
        /\ (maxval - (sp_res \div 2)) % sp_res = 0
        /\ 2 * minval >= 2 * min_threshold - sp_res
        /\ 2 * maxval <= 2 * max_threshold + sp_res

\* C3 witness: an interval exactly one cell wide that crosses zero and has
\* both thresholds on cell centers; the result is a single negative center
\* next to a positive one.
C3_Witness ==
    /\ call = "_minmaxcoord" /\ pc = "done"
    /\ max_threshold - min_threshold = sp_res
    /\ min_threshold < 0 /\ max_threshold > 0
    /\ minval = min_threshold /\ maxval = max_threshold

\* C4 (Regular Grid Builder axis lengths): for each predefined resolution r
\* the grid _create_grid returns has 360/r longitudes, 180/r latitudes and
\* as many points as the product of the two.
C4_AxisLengths ==
    (call = "_create_grid" /\ pc = "done" /\ sp_res \in PredefinedRes) =>
        /\ raised = "none"
        /\ grid.nlon * sp_res = 360000
        /\ grid.nlat * sp_res = 180000
        /\ grid.n_gpi = grid.nlon * grid.nlat

\* C5 (Resampling mask property): in the output of resample_to_shape, for
\* every variable and destination cell, a cell outside the polygon is masked
\* and holds -99, and a cell inside the polygon whose resampled data for
\* that variable is valid is unmasked and holds the resampled value.
C5_MaskProperty ==
    (call = "resample_to_shape" /\ pc = "done" /\ raised = "none") =>
        \A key \in Range(data.keys) : \A c \in Cells(self.shape) :
            LET o == out[prefix \o "_" \o key][c]
                inside == Within(DestPoint(self, c), shp.polygon)
            IN  /\ ~inside => (o.masked /\ o.val = -99)
                /\ (inside /\ ~data.field[key][c].masked) =>
                        (~o.masked /\ o.val = data.field[key][c].val)

\* the points of a country grid, as <<lon, lat>> pairs in index order
GridPoints(g) == [k \in 1..g.n_gpi |-> <<g.arrlon[k], g.arrlat[k]>>]

C7_EmptyGridError ==
    (call = "CountryGrid" /\ pc = "built"
        /\ (lon_new = <<>> \/ lat_new = <<>>)) =>
        raised = "EmptyGridError"

\* C8 (Country grid honours its resolution argument): the centers the
\* reducer returns are cell centers of the lattice of the resolution
\* argument, and adjacent candidate coordinates are that resolution apart.
C8_ResolutionArgument ==
    (call = "CountryGrid" /\ pc = "built") =>
        /\ \A c \in {lonmin, lonmax, latmin, latmax} :
            (c - (resolution \div 2)) % resolution = 0
        /\ \A i \in 1..(Len(lons) - 1) : lons[i + 1] - lons[i] = resolution
        /\ \A i \in 1..(Len(lats) - 1) : lats[i + 1] - lats[i] = resolution

\* the square country of the end-to-end scenario: bbox (0,0)-(2,2) degrees,
\* every point strictly inside the box inside the polygon
SquareCountry ==
    [bbox |-> <<0, 0, 2000, 2000>>, polygon |-> {500, 1500} \X {500, 1500}]

\* C9 (End-to-end square country): at resolution 1 degree the square with
\* bbox (0,0)-(2,2) gets centers (0.5, 1.5) in both dimensions, candidate
\* axes [0.5, 1.5], no coordinate trimmed, and the four points
\* (0.5,0.5), (1.5,0.5), (0.5,1.5), (1.5,1.5) with shape (2, 2).
C9_SquareCountry ==
    (call = "CountryGrid" /\ pc = "built" /\ sp_res = 1000
        /\ resolution = 1000 /\ shp = SquareCountry) =>
        /\ <<lonmin, lonmax>> = <<500, 1500>>
        /\ <<latmin, latmax>> = <<500, 1500>>
        /\ lons = <<500, 1500>> /\ lats = <<500, 1500>>
        /\ del_lons = <<>> /\ del_lats = <<>>
        /\ lon_new = lons /\ lat_new = lats
        /\ GridPoints(self) =
            <<<<500, 500>>, <<1500, 500>>, <<500, 1500>>, <<1500, 1500>>>>
        /\ self.shape = <<2, 2>>
        /\ raised = "none"

\* C9 witness: the square country's grid has been built at 1 degree
C9_Witness ==
    /\ call = "CountryGrid" /\ pc = "built" /\ sp_res = 1000
    /\ resolution = 1000 /\ shp = SquareCountry
    /\ self.n_gpi = 4

EndRunsRemoved(axis, del, kept) ==
    LET n == Len(axis)
    IN  /\ \A i, j \in 1..Len(del) : del[i] = del[j] => i = j
        /\ \E a, b \in 0..(n \div 2) :
            /\ Len(del) = a + b
            /\ \A i \in 1..a : del[i] = i - 1
            /\ \A i \in 1..b : del[a + i] = n - i
            /\ kept = SubSeq(axis, a + 1, n - b)
        /\ n % 2 = 1 =>
            /\ \A i \in 1..Len(del) : del[i] # (n - 1) \div 2
            /\ axis[(n + 1) \div 2] \in Range(kept)

====
